---------------------------- MODULE Spec2Model ----------------------------
(***************************************************************************)
(* ZXIS_Run: a heart-rate driven treadmill controller (src/runArduino.c)   *)
(* and an ECG R-peak / BPM extractor (src/cegBPM.c).                       *)
(*                                                                         *)
(* Both sketches compute with 32-bit IEEE-754 floats.  The model carries   *)
(* every float as the record [s, e, m] standing for (-1)^s * m * 2^e and   *)
(* performs each float operation with round-to-nearest-even, so that the   *)
(* comparisons against the dead band, the rounding of the PWM increment    *)
(* and the threshold comparison of the detector come out as on the board.  *)
(* Infinities and NaN are not represented: every float of the two          *)
(* programs stays far below 2^31 in magnitude (the only division by zero,  *)
(* in pushRR, is treated where it arises).                                 *)
(***************************************************************************)
EXTENDS Integers, Sequences, FiniteSets, TLC

(***************************************************************************)
(*                      binary32 arithmetic                                *)
(***************************************************************************)

\* exponent of the last mantissa bit of a subnormal (bias 127, 23 fraction
\* bits); zero and the subnormals carry it
EMin == 1 - 127 - 23

\* number of binary digits of the natural number n
RECURSIVE BitLen(_)
BitLen(n) == IF n = 0 THEN 0 ELSE 1 + BitLen(n \div 2)

Min2(a, b) == IF a < b THEN a ELSE b
Max2(a, b) == IF a > b THEN a ELSE b

\* The operations below bind their operands once (x \in {a}) before they
\* compute with them, so that an operand given as an expression is
\* evaluated a single time.

\* The float nearest to (-1)^s * (m + f) * 2^e, ties to even, where m < 2^31
\* and 0 <= f < 1 with f # 0 exactly when sticky.  Callers pass a sticky
\* remainder only together with an m of more than 24 bits.
F32PackV(s, e, m, sticky) ==
  LET n  == BitLen(m)
      k1 == IF n > 24 THEN n - 24 ELSE 0
      k  == IF e + k1 < EMin THEN EMin - e ELSE k1
  IN IF m = 0 THEN [s |-> s, e |-> EMin, m |-> 0]
     ELSE IF k > 0
     THEN LET q   == IF k >= 31 THEN 0 ELSE m \div (2^k)
              r   == IF k >= 31 THEN m ELSE m % (2^k)
              cmp == IF k >= 32 THEN -1
                     ELSE LET half == 2^(k-1)
                          IN IF r > half THEN 1
                             ELSE IF r < half THEN -1
                             ELSE IF sticky THEN 1 ELSE 0
              up  == cmp = 1 \/ (cmp = 0 /\ q % 2 = 1)
              q2  == IF up THEN q + 1 ELSE q
          IN IF q2 = 16777216
             THEN [s |-> s, e |-> e + k + 1, m |-> 8388608]
             ELSE IF q2 = 0 THEN [s |-> s, e |-> EMin, m |-> 0]
             ELSE [s |-> s, e |-> e + k, m |-> q2]
     ELSE LET sh == Min2(24 - n, e - EMin)
          IN [s |-> s, e |-> e - sh, m |-> m * (2^sh)]

F32Pack(s, e, m, sticky) ==
  CHOOSE r \in { F32PackV(s, ev, mv, st) :
                   ev \in {e}, mv \in {m}, st \in {sticky} } : TRUE

\* int -> float conversion, exact below 2^24 and rounded above
F32OfInt(i) == IF i < 0 THEN F32Pack(1, 0, -i, FALSE) ELSE F32Pack(0, 0, i, FALSE)

F32Zero == [s |-> 0, e |-> EMin, m |-> 0]
F32One  == [s |-> 0, e |-> -23, m |-> 8388608]

F32Neg(a) == [s |-> 1 - a.s, e |-> a.e, m |-> a.m]
F32Abs(a) == [s |-> 0, e |-> a.e, m |-> a.m]

\* |a| < |b| on canonical records
F32MagLt(a, b) == a.e < b.e \/ (a.e = b.e /\ a.m < b.m)

F32LtV(a, b) ==
  IF a.m = 0 /\ b.m = 0 THEN FALSE
  ELSE IF a.s # b.s THEN a.s = 1
  ELSE IF a.s = 0 THEN F32MagLt(a, b) ELSE F32MagLt(b, a)

F32Lt(a, b) == \E x \in {a}, y \in {b} : F32LtV(x, y)
F32Gt(a, b) == F32Lt(b, a)
F32Le(a, b) == ~F32Lt(b, a)
F32Ge(a, b) == ~F32Lt(a, b)

\* a * b.  The 48-bit product of the mantissas is built from 12-bit limbs as
\* H * 2^24 + L; its leading 25..31 bits and a sticky flag go to F32Pack.
F32MulV(a, b) ==
  LET a1  == a.m \div 4096
      a0  == a.m % 4096
      b1  == b.m \div 4096
      b0  == b.m % 4096
      mid == a1 * b0 + a0 * b1
      low == (mid % 4096) * 4096 + a0 * b0
      L   == low % 16777216
      H   == a1 * b1 + (mid \div 4096) + (low \div 16777216)
      s   == IF a.s = b.s THEN 0 ELSE 1
      e   == a.e + b.e
      j   == IF H < 128 THEN 0
             ELSE IF H < 8192 THEN 6
             ELSE IF H < 524288 THEN 12 ELSE 18
  IN F32Pack(s, e + j, H * (2^(24 - j)) + (L \div (2^j)), L % (2^j) # 0)

F32Mul(a, b) == CHOOSE r \in { F32MulV(x, y) : x \in {a}, y \in {b} } : TRUE

\* a + b.  The operand of larger magnitude is scaled by 2^6; the other is
\* aligned to it, the bits shifted out kept as a sticky flag.
F32AddV(a, b) ==
  LET big   == IF F32MagLt(a, b) THEN b ELSE a
      small == IF F32MagLt(a, b) THEN a ELSE b
      d     == big.e - small.e
      A     == big.m * 64
      sh    == d - 6
      B     == IF sh <= 0 THEN small.m * (2^(6 - d))
               ELSE IF sh >= 25 THEN 0 ELSE small.m \div (2^sh)
      lost  == IF sh <= 0 THEN FALSE
               ELSE IF sh >= 25 THEN small.m # 0 ELSE small.m % (2^sh) # 0
      e     == big.e - 6
  IN IF big.s = small.s
     THEN F32Pack(big.s, e, A + B, lost)
     ELSE IF A = B /\ ~lost THEN F32Zero
     ELSE IF lost THEN F32Pack(big.s, e, A - B - 1, TRUE)
     ELSE F32Pack(big.s, e, A - B, FALSE)

F32Add(a, b) == CHOOSE r \in { F32AddV(x, y) : x \in {a}, y \in {b} } : TRUE

F32Sub(a, b) == F32Add(a, F32Neg(b))

\* the quotient bits of num / d by long division, num < d * 2^27: the pair
\* <<quotient, remainder>> after the bits 2^n .. 2^0 of the quotient
RECURSIVE F32DivBits(_, _, _)
F32DivBits(qr, d, n) ==
  IF n = 0 THEN qr
  ELSE F32DivBits(
         CHOOSE r \in { IF 2 * p[2] >= d THEN <<2 * p[1] + 1, 2 * p[2] - d>>
                        ELSE <<2 * p[1], 2 * p[2]>> : p \in {qr} } : TRUE,
         d, n - 1)

\* a / b for b # 0: both mantissas are brought to 24 bits, then 26 quotient
\* bits and a sticky remainder go to F32Pack.
F32DivV(a, b) ==
  LET sa == 24 - BitLen(a.m)
      sb == 24 - BitLen(b.m)
      ma == a.m * (2^sa)
      mb == b.m * (2^sb)
      s  == IF a.s = b.s THEN 0 ELSE 1
  IN IF a.m = 0 THEN [s |-> s, e |-> EMin, m |-> 0]
     ELSE CHOOSE r \in
            { F32Pack(s, (a.e - sa) - (b.e - sb) - 26, qr[1], qr[2] # 0) :
                qr \in { F32DivBits(<<ma \div mb, ma % mb>>, mb, 26) } } : TRUE

F32Div(a, b) == CHOOSE r \in { F32DivV(x, y) : x \in {a}, y \in {b} } : TRUE

\* round(x) as a long: nearest integer, halves away from zero
F32RoundV(x) ==
  LET k   == -x.e
      mag == IF x.e >= 0 THEN x.m * (2^x.e)
             ELSE IF k >= 26 THEN 0
             ELSE LET q == x.m \div (2^k)
                      r == x.m % (2^k)
                  IN IF 2 * r >= 2^k THEN q + 1 ELSE q
  IN IF x.s = 1 THEN -mag ELSE mag

F32Round(a) == CHOOSE r \in { F32RoundV(x) : x \in {a} } : TRUE

\* C integer division, truncating toward zero
CDiv(a, b) == IF a >= 0 THEN a \div b ELSE -((-a) \div b)

(***************************************************************************)
(*                 src/runArduino.c : the controller                       *)
(***************************************************************************)

PWM_MIN       == 70
PWM_MAX       == 255
CTRL_PERIODMS == 1000
HR_VALID_MIN  == 40
HR_VALID_MAX  == 200
IDLE_DELAYMS  == 500

\* 0.6f, 3.5f and 1.5f as binary32
HR_SMOOTH_A == [s |-> 0, e |-> -24, m |-> 10066330]
KP          == [s |-> 0, e |-> -22, m |-> 14680064]
HR_DEADBAND == [s |-> 0, e |-> -23, m |-> 12582912]

\* the two target bands, as passed by dietRun and trainingRun
DIET_LOW      == F32OfInt(60)
DIET_HIGH     == F32OfInt(70)
TRAINING_LOW  == F32OfInt(70)
TRAINING_HIGH == F32OfInt(80)

\* the mode strings, as sequences of character codes (ASCII)
StrEmpty    == << >>
StrDiet     == <<100, 105, 101, 116>>
StrTraining == <<116, 114, 97, 105, 110, 105, 110, 103>>

\* isspace() in the C locale, as used by String::trim(): space, \t, \n,
\* \v, \f and \r
IsSpace(c) == c = 32 \/ (c >= 9 /\ c <= 13)

\* String::trim(): leading and trailing white space removed
RECURSIVE TrimLeft(_)
TrimLeft(str) ==
  IF str # << >> /\ IsSpace(Head(str)) THEN TrimLeft(Tail(str)) ELSE str

RECURSIVE TrimRight(_)
TrimRight(str) ==
  IF str # << >> /\ IsSpace(str[Len(str)])
  THEN TrimRight(SubSeq(str, 1, Len(str) - 1)) ELSE str

Trim(str) == TrimRight(TrimLeft(str))

\* the characters of str before its first NUL: the C string that strcmp()
\* sees in the buffer of a String
RECURSIVE CStr(_)
CStr(str) ==
  IF str = << >> \/ Head(str) = 0 THEN << >>
  ELSE <<Head(str)>> \o CStr(Tail(str))

\* String == "literal" (String::equals(const char*)): an empty String
\* equals the empty literal only, any other is compared by strcmp()
StrEquals(str, lit) ==
  IF Len(str) = 0 THEN lit = << >> ELSE CStr(str) = lit

\* Arduino map(x, in_min, in_max, out_min, out_max), in long arithmetic
ArduinoMap(x, inMin, inMax, outMin, outMax) ==
  CDiv((x - inMin) * (outMax - outMin), inMax - inMin) + outMin

\* readBPM(): the placeholder sensor, a linear map of the ADC reading
readBPM(raw) == ArduinoMap(raw, 0, 1023, 50, 150)

\* clampT with the upper limit forgotten
clampT_NoUpper(v, lo, hi) == IF v < lo THEN lo ELSE v

clampT(v, lo, hi) == IF v < lo THEN lo ELSE IF v > hi THEN hi ELSE v

\* the validity test accepting every reading
validBPM_Any(bpm) == TRUE

\* the validity test that guards the smoothing, in controlHeartRateBand and
\* in the idle branch of loop
validBPM(bpm) == bpm >= HR_VALID_MIN /\ bpm <= HR_VALID_MAX

\* the smoothing without its start from the first reading
smoothBPM_NoBootstrap(ema, bpm) ==
  F32Add(F32Mul(HR_SMOOTH_A, ema),
         F32Mul(F32Sub(F32One, HR_SMOOTH_A), F32OfInt(bpm)))

\* the smoothing started afresh from the reading, the old value dropped
smoothBPM_Restart(ema, bpm) ==
  F32Add(F32Mul(HR_SMOOTH_A, F32OfInt(bpm)),
         F32Mul(F32Sub(F32One, HR_SMOOTH_A), F32OfInt(bpm)))

\* "if (hrEma <= 0.0f) hrEma = bpm; hrEma = A * hrEma + (1.0f - A) * bpm;"
smoothBPM(ema, bpm) ==
  LET h0 == IF F32Le(ema, F32Zero) THEN F32OfInt(bpm) ELSE ema
  IN F32Add(F32Mul(HR_SMOOTH_A, h0),
            F32Mul(F32Sub(F32One, HR_SMOOTH_A), F32OfInt(bpm)))

\* the rate limit never holding a step back
ctrlTooEarly_Never(now, last) == FALSE

\* the rate limit: unsigned "now - lastCtrlMs < CTRL_PERIODMS"
ctrlTooEarly(now, last) == now - last < CTRL_PERIODMS

\* the increment computed without the dead band around the target band
pwmDeltaOf_NoDeadband(ema, targetLow, targetHigh) ==
  IF F32Lt(ema, targetLow)
  THEN F32Mul(KP, F32Sub(targetLow, ema))
  ELSE IF F32Gt(ema, targetHigh)
  THEN F32Mul(F32Neg(KP), F32Sub(ema, targetHigh))
  ELSE F32Zero

\* step 4 of controlHeartRateBand: the increment from the band error
pwmDeltaOf(ema, targetLow, targetHigh) ==
  IF F32Lt(ema, F32Sub(targetLow, HR_DEADBAND))
  THEN F32Mul(KP, F32Sub(targetLow, ema))
  ELSE IF F32Gt(ema, F32Add(targetHigh, HR_DEADBAND))
  THEN F32Mul(F32Neg(KP), F32Sub(ema, targetHigh))
  ELSE F32Zero

\* the command set from the error alone, not incremented
nextPwmOf_Absolute(pwm, delta) ==
  IF PWM_MIN + F32Round(delta) < PWM_MIN THEN PWM_MIN
  ELSE IF PWM_MIN + F32Round(delta) > PWM_MAX THEN PWM_MAX
  ELSE PWM_MIN + F32Round(delta)

\* the command incremented but not clamped
nextPwmOf_Unclamped(pwm, delta) == pwm + F32Round(delta)

\* step 5: "(int)motorPwm + (int)round(pwmDelta)", clamped
nextPwmOf(pwm, delta) == clampT(pwm + F32Round(delta), PWM_MIN, PWM_MAX)

\* the cast (uint8_t)nextPwm
ToUint8(v) == v % 256


(***************************************************************************)
(* State of the controller.  setMode, motorPwm, hrEma and lastCtrlMs are   *)
(* the sketch's globals.  clock is the value millis() would return; pc     *)
(* tells whether setup() has run.  pwmPin is the duty last written to      *)
(* PIN_MOTOR_PWM, nWrites counts the calls of motorWrite, and log keeps    *)
(* what the last pass printed on the serial line: the mode message, the    *)
(* kind of status line, the BPM read and, on a control step, the printed   *)
(* increment.  nLoops counts the passes of loop(), serialIn is what the     *)
(* serial line held at the top of the last pass, and modeBefore is the     *)
(* mode that pass started in.                                              *)
(***************************************************************************)
VARIABLES setMode, motorPwm, hrEma, lastCtrlMs, clock, pc, pwmPin, nWrites,
          log, nLoops, serialIn, modeBefore

ctlVars == <<setMode, motorPwm, hrEma, lastCtrlMs, clock, pc, pwmPin,
             nWrites, log, nLoops, serialIn, modeBefore>>

\* passes of loop() explored
MaxLoops == 3

\* ADC readings offered to readBPM: 0..1023 on a 10-bit converter, up to
\* 4095 on a 12-bit one (where the placeholder map leaves the valid range)
RawSamples == {0, 92, 154, 1023, 2048}

\* time, in ms, that passes between two reads of millis()
LoopDelays == {200, 1000}

\* what the serial line offers at the top of a pass: nothing, or a line
\* (as read up to the newline): "diet", "training" between white space and
\* with a NUL and a digit behind the word, the empty line, and "go"
SerialInputs ==
  { [avail |-> FALSE, line |-> << >>] } \cup
  { [avail |-> TRUE, line |-> l] :
      l \in { StrDiet, <<12, 32>> \o StrTraining \o <<0, 49, 13, 11>>,
              << >>, <<103, 111>> } }

motorWrite(pwm) ==
  /\ pwmPin'   = pwm
  /\ motorPwm' = pwm
  /\ nWrites'  = nWrites + 1

controlHeartRateBand(targetLow, targetHigh, raw, now, modeMsg) ==
  LET bpm     == readBPM(raw)
      ema     == smoothBPM(hrEma, bpm)
      delta   == pwmDeltaOf(ema, targetLow, targetHigh)
      nextPwm == nextPwmOf(motorPwm, delta)
  IN IF ~validBPM(bpm)
     THEN /\ log' = [mode |-> modeMsg, kind |-> "warn", bpm |-> bpm, dpwm |-> 0]
          /\ UNCHANGED <<hrEma, lastCtrlMs, motorPwm, pwmPin, nWrites>>
     ELSE IF ctrlTooEarly(now, lastCtrlMs)
     THEN /\ hrEma' = ema
          /\ log' = [mode |-> modeMsg, kind |-> "status", bpm |-> bpm, dpwm |-> 0]
          /\ UNCHANGED <<lastCtrlMs, motorPwm, pwmPin, nWrites>>
     ELSE /\ hrEma' = ema
          /\ lastCtrlMs' = now
          /\ motorWrite(ToUint8(nextPwm))
          /\ log' = [mode |-> modeMsg, kind |-> "ctrl", bpm |-> bpm,
                     dpwm |-> F32Round(delta)]

dietRun(raw, now, modeMsg) ==
  controlHeartRateBand(DIET_LOW, DIET_HIGH, raw, now, modeMsg)

trainingRun(raw, now, modeMsg) ==
  controlHeartRateBand(TRAINING_LOW, TRAINING_HIGH, raw, now, modeMsg)

\* the mode after the serial line has been looked at
modeAfter(mode, inp) ==
  IF ~inp.avail THEN mode
  ELSE LET line == Trim(inp.line)
       IN IF ~StrEquals(line, StrDiet) /\ ~StrEquals(line, StrTraining)
          THEN StrEmpty ELSE line

setup ==
  /\ pc = "setup"
  /\ pc' = "loop"
  /\ motorWrite(PWM_MIN)
  /\ log' = [mode |-> "none", kind |-> "prompt", bpm |-> 0, dpwm |-> 0]
  /\ UNCHANGED <<setMode, hrEma, lastCtrlMs, clock, nLoops, serialIn,
                 modeBefore>>

\* one pass of loop(): inp is what the serial line holds, raw the ADC
\* reading, dt the time since millis() was last read
loop(inp, raw, dt) ==
  /\ pc = "loop"
  /\ LET mode == modeAfter(setMode, inp)
         msg  == IF ~inp.avail THEN "none"
                 ELSE IF mode = StrEmpty THEN "rejected" ELSE "changed"
         now  == clock + dt
         bpm  == readBPM(raw)
     IN /\ setMode' = mode
        /\ IF StrEquals(mode, StrDiet)
           THEN dietRun(raw, now, msg) /\ clock' = now
           ELSE IF StrEquals(mode, StrTraining)
           THEN trainingRun(raw, now, msg) /\ clock' = now
           ELSE /\ hrEma' = IF validBPM(bpm) THEN smoothBPM(hrEma, bpm) ELSE hrEma
                /\ log' = [mode |-> msg, kind |-> "idle", bpm |-> bpm, dpwm |-> 0]
                /\ clock' = now + IDLE_DELAYMS
                /\ UNCHANGED <<lastCtrlMs, motorPwm, pwmPin, nWrites>>
  /\ nLoops' = nLoops + 1
  /\ serialIn' = inp
  /\ modeBefore' = setMode
  /\ pc' = pc

CtlInit ==
  /\ setMode = StrEmpty
  /\ motorPwm = 0
  /\ hrEma = F32Zero
  /\ lastCtrlMs = 0
  /\ clock = 0
  /\ pc = "setup"
  /\ pwmPin = 0
  /\ nWrites = 0
  /\ log = [mode |-> "none", kind |-> "none", bpm |-> 0, dpwm |-> 0]
  /\ nLoops = 0
  /\ serialIn = [avail |-> FALSE, line |-> << >>]
  /\ modeBefore = StrEmpty


(***************************************************************************)
(*              src/cegBPM.c : the ECG R-peak / BPM extractor              *)
(***************************************************************************)

FS_HZ         == 250
SAMPLE_PERIOD == 1000000 \div FS_HZ
REFRACT_MS    == 250
RR_AVG_N      == 5
BPM_VALID_MIN == 40
BPM_VALID_MAX == 200
PRINT_MS      == 1000

\* 0.995f, 0.3f, 0.01f, 1.5f and 60000.0f as binary32
DC_ALPHA     == [s |-> 0, e |-> -24, m |-> 16693330]
ENV_ALPHA    == [s |-> 0, e |-> -25, m |-> 10066330]
THRESH_ALPHA == [s |-> 0, e |-> -30, m |-> 10737418]
\* a gain of 1.0f
THRESH_GAIN_One == [s |-> 0, e |-> -23, m |-> 8388608]

THRESH_GAIN  == [s |-> 0, e |-> -23, m |-> 12582912]
MS_PER_MIN   == [s |-> 0, e |-> -8, m |-> 15360000]

(***************************************************************************)
(* State of the extractor: the sketch's globals lastSampleUs .. bpmCurrent *)
(* (rrBuf[i] of the source is rrBuf[i + 1] here), lastPrint, the static of *)
(* loop(), ecgClock, the value micros() would return (millis() is taken as *)
(* its thousandth), ecgPc, which tells whether setup() has run, and        *)
(* bpmPrinted, the BPM last printed by loop().                             *)
(* History kept for the properties: nSamples counts the samples processed, *)
(* nPeaks counts the accepted peaks, rrPushed lists the intervals handed   *)
(* to pushRR, oldest first, trainP is the period of the pulse train the    *)
(* sensor delivers (0: no train), and pairAt is the time, in ms, at which  *)
(* the sensor delivers a pair of pulses (-1: no pair).                     *)
(***************************************************************************)
VARIABLES lastSampleUs, dcMean, envEma, threshEnv, aboveThresh, lastPeakMs,
          rrBuf, rrIdx, rrFilled, bpmCurrent, lastPrint, ecgClock, ecgPc,
          bpmPrinted, nSamples, nPeaks, rrPushed, trainP, pairAt

rrVars     == <<rrBuf, rrIdx, rrFilled, bpmCurrent, rrPushed>>
filterVars == <<dcMean, envEma, threshEnv>>
detVars    == <<aboveThresh, lastPeakMs, nPeaks>>
ecgVars    == <<lastSampleUs, filterVars, detVars, rrVars, lastPrint,
                ecgClock, ecgPc, bpmPrinted, nSamples, trainP, pairAt>>

ToUint16(v) == v % 65536

\* millis() at a given micros()
millisAt(us) == us \div 1000

\* the sum leaving out rrBuf[0]
RECURSIVE rrSum_SkipFirst(_, _)
rrSum_SkipFirst(buf, n) ==
  IF n <= 1 THEN 0 ELSE buf[n] + rrSum_SkipFirst(buf, n - 1)

\* "sum += rrBuf[i]" for i < n
RECURSIVE rrSum(_, _)
rrSum(buf, n) == IF n = 0 THEN 0 ELSE buf[n] + rrSum(buf, n - 1)

\* the values "(int)round(60000.0f / rrAvg)" can take for a sum of n
\* intervals.  A zero sum makes the quotient infinite and the conversion to
\* int undefined: the result is then whatever the target saturates to.
bpmOfRR(sum, n) ==
  IF sum = 0 THEN {-2147483647 - 1, 2147483647}
  ELSE { F32Round(F32Div(MS_PER_MIN, F32Div(F32OfInt(sum), F32OfInt(n)))) }

\* the range test letting every value through
bpmInRange_Any(bpm) == TRUE

\* "bpm >= BPM_VALID_MIN && bpm <= BPM_VALID_MAX"
bpmInRange(bpm) == bpm >= BPM_VALID_MIN /\ bpm <= BPM_VALID_MAX

pushRR(rr) ==
  LET buf    == [rrBuf EXCEPT ![rrIdx + 1] = rr]
      idx    == rrIdx + 1
      wrap   == idx >= RR_AVG_N
      filled == rrFilled \/ wrap
      idx2   == IF wrap THEN 0 ELSE idx
      n      == IF filled THEN RR_AVG_N ELSE idx2
  IN /\ rrBuf' = buf
     /\ rrIdx' = idx2
     /\ rrFilled' = filled
     /\ rrPushed' = Append(rrPushed, rr)
     /\ \E bpm \in bpmOfRR(rrSum(buf, n), n) :
          bpmCurrent' = IF bpmInRange(bpm) THEN bpm ELSE bpmCurrent

\* steps 1-3 of ecgProcessSample: the new dcMean, envEma and threshEnv and
\* the threshold thr, for the sample raw
ecgFilter(raw) ==
  LET x   == F32OfInt(raw)
      dc  == F32Add(F32Mul(DC_ALPHA, dcMean),
                    F32Mul(F32Sub(F32One, DC_ALPHA), x))
      env == F32Abs(F32Sub(x, dc))
      ee  == F32Add(F32Mul(ENV_ALPHA, envEma),
                    F32Mul(F32Sub(F32One, ENV_ALPHA), env))
      te  == F32Add(F32Mul(THRESH_ALPHA, threshEnv),
                    F32Mul(F32Sub(F32One, THRESH_ALPHA), ee))
  IN [dcMean |-> dc, envEma |-> ee, threshEnv |-> te,
      thr |-> F32Mul(te, THRESH_GAIN)]

\* "bool nowAbove = (envEma > thr)"
nowAboveOf(env, thr) == F32Gt(env, thr)

\* the refractory test, unsigned "nowMs - lastPeakMs >= REFRACT_MS"
refractoryOver(nowMs, last) == nowMs - last >= REFRACT_MS

\* "uint16_t rr = (uint16_t)(nowMs - lastPeakMs)"
rrOf(nowMs, last) == ToUint16(nowMs - last)

\* "if (nowAbove && !aboveThresh)": the upward crossing
risingEdge(nowAbove, was) == nowAbove /\ ~was

\* step 4 of ecgProcessSample: the edge detector with its refractory
\* lockout, for the outcome nowAbove of the threshold comparison
ecgDetect(nowAbove, nowMs) ==
  LET edge   == risingEdge(nowAbove, aboveThresh)
      accept == edge /\ refractoryOver(nowMs, lastPeakMs)
  IN /\ IF accept
        THEN /\ IF lastPeakMs # 0
                THEN pushRR(rrOf(nowMs, lastPeakMs))
                ELSE UNCHANGED rrVars
             /\ lastPeakMs' = nowMs
             /\ nPeaks' = nPeaks + 1
        ELSE UNCHANGED <<lastPeakMs, rrVars, nPeaks>>
     /\ aboveThresh' = nowAbove

ecgProcessSample(raw, nowMs) ==
  \E f \in {ecgFilter(raw)} :
     /\ dcMean' = f.dcMean
     /\ envEma' = f.envEma
     /\ threshEnv' = f.threshEnv
     /\ ecgDetect(nowAboveOf(f.envEma, f.thr), nowMs)
     /\ nSamples' = nSamples + 1

\* the test of ecgUpdateSampler: a sample is due
sampleDue(nowUs, last) == nowUs - last >= SAMPLE_PERIOD

\* the sampler taking the current time for the time of the sample
nextSampleUs_Resync(last, nowUs) == nowUs

\* "lastSampleUs += SAMPLE_PERIOD"
nextSampleUs(last, nowUs) == last + SAMPLE_PERIOD

ecgUpdateSampler(nowUs, raw) ==
  IF sampleDue(nowUs, lastSampleUs)
  THEN /\ lastSampleUs' = nextSampleUs(lastSampleUs, nowUs)
       /\ ecgProcessSample(raw, millisAt(nowUs))
  ELSE UNCHANGED <<lastSampleUs, filterVars, detVars, rrVars, nSamples>>

ecgGetBPM == bpmCurrent

ecgSetup ==
  /\ ecgPc = "setup"
  /\ ecgPc' = "loop"
  /\ rrBuf' = [i \in 1..RR_AVG_N |-> 0]
  /\ UNCHANGED <<lastSampleUs, filterVars, detVars, rrIdx, rrFilled,
                 bpmCurrent, rrPushed, lastPrint, ecgClock, bpmPrinted,
                 nSamples, trainP, pairAt>>

\* one pass of loop() of the extractor, dt microseconds after the last one,
\* the ADC holding raw
ecgLoop(raw, dt) ==
  /\ ecgPc = "loop"
  /\ LET nowUs == ecgClock + dt
         nowMs == millisAt(nowUs)
     IN /\ ecgClock' = nowUs
        /\ ecgUpdateSampler(nowUs, raw)
        /\ IF nowMs - lastPrint >= PRINT_MS
           THEN lastPrint' = nowMs /\ bpmPrinted' = bpmCurrent'
           ELSE UNCHANGED <<lastPrint, bpmPrinted>>
  /\ UNCHANGED <<ecgPc, trainP, pairAt>>

EcgInit ==
  /\ lastSampleUs = 0
  /\ dcMean = F32Zero
  /\ envEma = F32Zero
  /\ threshEnv = F32Zero
  /\ aboveThresh = FALSE
  /\ lastPeakMs = 0
  /\ rrBuf = [i \in 1..RR_AVG_N |-> 0]
  /\ rrIdx = 0
  /\ rrFilled = FALSE
  /\ bpmCurrent = 0
  /\ lastPrint = 0
  /\ ecgClock = 0
  /\ ecgPc = "setup"
  /\ bpmPrinted = 0
  /\ nSamples = 0
  /\ nPeaks = 0
  /\ rrPushed = << >>

vars == <<ctlVars, ecgVars>>

(***************************************************************************)
(* Spec: the controller sketch, for every serial input, ADC reading and    *)
(* loop timing, over MaxLoops passes of loop().                            *)
(***************************************************************************)
Init == CtlInit /\ EcgInit /\ trainP = 0 /\ pairAt = -1

Next ==
  \/ setup /\ UNCHANGED ecgVars
  \/ /\ nLoops < MaxLoops
     /\ \E inp \in SerialInputs, raw \in RawSamples, dt \in LoopDelays :
          loop(inp, raw, dt)
     /\ UNCHANGED ecgVars

Spec == Init /\ [][Next]_vars


(***************************************************************************)
(*                  Properties of the controller                           *)
(***************************************************************************)

\* the band the pass that led to the current state worked with
bandLow  == IF StrEquals(setMode, StrDiet) THEN DIET_LOW ELSE TRAINING_LOW
bandHigh == IF StrEquals(setMode, StrDiet) THEN DIET_HIGH ELSE TRAINING_HIGH

\* the sketch is in Diet or Training mode
modeRuns == StrEquals(setMode, StrDiet) \/ StrEquals(setMode, StrTraining)

\* a pass of loop() in Diet or Training mode (a controller step) was taken
ctlStep == nLoops' = nLoops + 1 /\ modeRuns'

\* ... whose reading, as printed, was inside [HR_VALID_MIN, HR_VALID_MAX]
ctlStepValid == ctlStep /\ log'.bpm >= 40 /\ log'.bpm <= 200

\* ... and which came a control period or more after lastCtrlMs
ctlStepDue == ctlStepValid /\ clock' - lastCtrlMs >= 1000

\* C1: once setup() has run, the stored command motorPwm, and the value
\* last handed to motorWrite (the duty on the PWM pin), are within
\* [PWM_MIN, PWM_MAX] = [70, 255].
C1_PwmInRange ==
  pc = "loop" => /\ motorPwm >= 70 /\ motorPwm <= 255
                 /\ pwmPin >= 70 /\ pwmPin <= 255

\* a control step asked for more than PWM_MAX and was clamped to it
C1_Witness == pc = "loop" /\ log.kind = "ctrl" /\ log.dpwm > 0 /\ motorPwm = 255

\* the increment the claim C3 states, for the smoothed rate h and a band
C3_Delta(h, low, high) ==
  IF F32Lt(h, F32Sub(low, HR_DEADBAND)) THEN F32Mul(KP, F32Sub(low, h))
  ELSE IF F32Gt(h, F32Add(high, HR_DEADBAND))
  THEN F32Neg(F32Mul(KP, F32Sub(h, high)))
  ELSE F32Zero

C3_Clamp(v) == IF v < 70 THEN 70 ELSE IF v > 255 THEN 255 ELSE v

\* C3: on every controller step that passes the validity gate and the rate
\* limit, the new command is clamp(motorPwm + round(delta), 70, 255) with
\* delta computed from the smoothed rate and the active band: the command
\* is incremented from its previous value.
C3_Incremental ==
  [][ ctlStepDue =>
        motorPwm' = C3_Clamp(motorPwm
                      + F32Round(C3_Delta(hrEma', bandLow', bandHigh'))) ]_vars

\* a control step raised a command that was already above PWM_MIN, and
\* stayed below PWM_MAX
C3_Witness ==
  /\ log.kind = "ctrl" /\ log.dpwm > 0
  /\ motorPwm - log.dpwm > 70 /\ motorPwm < 255

\* C4: a controller step taken less than CTRL_PERIODMS after lastCtrlMs
\* leaves motorPwm and lastCtrlMs (and the PWM pin) as they were, and two
\* steps that recompute the command are at least 1000 ms apart.
C4_RateLimit ==
  [][ /\ (ctlStep /\ clock' - lastCtrlMs < 1000)
          => UNCHANGED <<motorPwm, lastCtrlMs, pwmPin, nWrites>>
      /\ lastCtrlMs' # lastCtrlMs => lastCtrlMs' - lastCtrlMs >= 1000 ]_vars

\* a valid reading was smoothed but held back by the rate limit, after an
\* earlier control step
C4_Witness == log.kind = "status" /\ lastCtrlMs > 0 /\ clock - lastCtrlMs < 1000

\* C5: a controller step whose reading is outside [40, 200] leaves hrEma,
\* motorPwm and lastCtrlMs unchanged and writes nothing to the actuator.
C5_ValidityGate ==
  [][ (ctlStep /\ (log'.bpm < 40 \/ log'.bpm > 200))
        => UNCHANGED <<hrEma, motorPwm, lastCtrlMs, pwmPin, nWrites>> ]_vars

\* an out-of-range reading was rejected when a control step was due, with a
\* smoothed rate already in place
C5_Witness ==
  /\ log.kind = "warn" /\ (log.bpm < 40 \/ log.bpm > 200)
  /\ hrEma # F32Zero /\ clock - lastCtrlMs >= 1000

\* C7: a controller step whose smoothed rate, after smoothing, is inside
\* [low - HR_DEADBAND, high + HR_DEADBAND] leaves the command as it was.
C7_DeadbandHolds ==
  [][ ( /\ ctlStepValid
        /\ F32Ge(hrEma', F32Sub(bandLow', HR_DEADBAND))
        /\ F32Le(hrEma', F32Add(bandHigh', HR_DEADBAND)) )
        => motorPwm' = motorPwm ]_vars

\* a due control step found the smoothed rate between the band and the edge
\* of the dead band and held a command above PWM_MIN
C7_Witness ==
  /\ log.kind = "ctrl" /\ log.dpwm = 0 /\ motorPwm > 70
  /\ modeRuns
  /\ (F32Lt(hrEma, bandLow) \/ F32Gt(hrEma, bandHigh))

\* a pass of loop() was taken
loopStep == nLoops' = nLoops + 1

\* the line the last pass read, trimmed
tokenIn == Trim(serialIn.line)

\* C12: a pass of loop() that finds no serial input, or reads a line that is
\* empty once trimmed, leaves the mode as it was.
C12_EmptyKeepsMode ==
  [][ (loopStep /\ (~serialIn'.avail \/ tokenIn' = StrEmpty))
        => setMode' = setMode ]_vars

\* the part of C12 the sketch does keep: a pass that finds no serial input
\* leaves the mode as it was.
NoInputKeepsMode ==
  [][ (loopStep /\ ~serialIn'.avail) => setMode' = setMode ]_vars

\* the smoothed rate the claims C13 to C15 expect after a reading bpm: the
\* EMA of the old value h (the reading itself while h is still 0)
emaOf(h, bpm) ==
  LET b  == F32OfInt(bpm)
      h0 == IF F32Le(h, F32Zero) THEN b ELSE h
  IN F32Add(F32Mul(HR_SMOOTH_A, h0), F32Mul(F32Sub(F32One, HR_SMOOTH_A), b))

\* what an Idle pass makes of the smoothed rate h with the reading bpm
idleEmaOf(h, bpm) == IF bpm >= 40 /\ bpm <= 200 THEN emaOf(h, bpm) ELSE h

\* C13: a pass of loop() that reads a non-empty token other than "diet" and
\* "training" ends in Idle (setMode = "") from whatever mode was active and
\* stays runnable; reading the token changes none of hrEma, motorPwm and
\* lastCtrlMs: motorPwm and lastCtrlMs are as before the pass and nothing is
\* written to the actuator, and hrEma is the old hrEma after nothing but the
\* smoothing the Idle branch of that same pass applies to it.
C13_MalformedToIdle ==
  [][ (loopStep /\ serialIn'.avail
         /\ tokenIn' \notin {StrEmpty, StrDiet, StrTraining})
        => /\ setMode' = StrEmpty
           /\ pc' = "loop"
           /\ UNCHANGED <<motorPwm, lastCtrlMs, pwmPin, nWrites>>
           /\ hrEma' = idleEmaOf(hrEma, log'.bpm) ]_vars

\* the part of C13 the sketch does keep: the same for every token that the
\* String comparison tells from "diet" and "training", that is, whose
\* characters before the first NUL are not one of the two words.
UnequalTokenToIdle ==
  [][ (loopStep /\ serialIn'.avail
         /\ ~StrEquals(tokenIn', StrDiet)
         /\ ~StrEquals(tokenIn', StrTraining))
        => /\ setMode' = StrEmpty
           /\ pc' = "loop"
           /\ UNCHANGED <<motorPwm, lastCtrlMs, pwmPin, nWrites>>
           /\ hrEma' = idleEmaOf(hrEma, log'.bpm) ]_vars

\* C14: a pass of loop() that runs in Idle mode with a valid reading replaces
\* hrEma by its EMA with the reading, and no pass in Idle mode changes
\* motorPwm or lastCtrlMs or calls motorWrite.
C14_IdleSmoothing ==
  [][ (loopStep /\ setMode' = StrEmpty)
        => /\ UNCHANGED <<motorPwm, lastCtrlMs, pwmPin, nWrites>>
           /\ (log'.bpm >= 40 /\ log'.bpm <= 200)
                => hrEma' = emaOf(hrEma, log'.bpm) ]_vars

\* after three passes in Idle mode the smoothed rate has moved away from the
\* readings and the command is still the one setup() wrote
C14_Witness ==
  /\ nLoops >= 3 /\ setMode = StrEmpty /\ modeBefore = StrEmpty
  /\ log.kind = "idle" /\ log.bpm >= 40 /\ log.bpm <= 200
  /\ hrEma # F32Zero /\ hrEma # F32OfInt(log.bpm)
  /\ nWrites = 1 /\ motorPwm = 70 /\ lastCtrlMs = 0

\* C15: a pass of loop() that changes the mode carries hrEma, motorPwm and
\* lastCtrlMs over unchanged into the new mode: what the pass leaves is what
\* the step of the new mode makes of the old values, with the band of the
\* new mode deciding the increment.
C15_ModeSwitchKeepsState ==
  [][ (loopStep /\ setMode' # setMode)
        => /\ hrEma' = idleEmaOf(hrEma, log'.bpm)
           /\ IF /\ modeRuns'
                 /\ log'.bpm >= 40 /\ log'.bpm <= 200
                 /\ clock' - lastCtrlMs >= 1000
              THEN /\ lastCtrlMs' = clock'
                   /\ motorPwm' =
                        C3_Clamp(motorPwm + F32Round(
                                   C3_Delta(hrEma', bandLow', bandHigh')))
              ELSE UNCHANGED <<motorPwm, lastCtrlMs, pwmPin, nWrites>> ]_vars

\* a switch from Diet to Training found a command above PWM_MIN and a
\* smoothed rate already in place, and the step of the new mode raised the
\* command from there
C15_Witness ==
  /\ StrEquals(modeBefore, StrDiet) /\ StrEquals(setMode, StrTraining)
  /\ log.kind = "ctrl" /\ log.dpwm > 0
  /\ motorPwm - log.dpwm > 70 /\ motorPwm < 255
  /\ hrEma # emaOf(F32Zero, log.bpm)

(***************************************************************************)
(* SatSpec: the controller with a heart rate that stays low.  The first    *)
(* pass of loop() reads "diet" or "training" from the serial line, no line *)
(* follows, every pass comes one control period after the last, and every  *)
(* reading maps to 50 or 55 bpm, so the smoothed rate stays below          *)
(* low - HR_DEADBAND in either band and every pass is a control step.      *)
(***************************************************************************)
MaxSatLoops == 14

SatRaws == {0, 52}

SatInputs(mode) ==
  IF mode = StrEmpty
  THEN { [avail |-> TRUE, line |-> l] : l \in {StrDiet, StrTraining} }
  ELSE { [avail |-> FALSE, line |-> << >>] }

SatNext ==
  \/ setup /\ UNCHANGED ecgVars
  \/ /\ nLoops < MaxSatLoops
     /\ \E inp \in SatInputs(setMode), raw \in SatRaws :
          loop(inp, raw, CTRL_PERIODMS)
     /\ UNCHANGED ecgVars

SatSpec == Init /\ [][SatNext]_vars

\* a control step that finds the smoothed rate below low - HR_DEADBAND
ctlStepLow == ctlStepDue /\ F32Lt(hrEma', F32Sub(bandLow', HR_DEADBAND))

\* C6: while the smoothed rate is below low - HR_DEADBAND on every control
\* step, each control step raises motorPwm by 5 or more or takes it to
\* PWM_MAX = 255, a command of 255 stays exactly 255 (the 8-bit value never
\* wraps), and by the end of the run the command is 255.
C6_Saturates ==
  /\ [][ ctlStepLow => /\ (motorPwm' = 255 \/ motorPwm' >= motorPwm + 5)
                       /\ motorPwm' <= 255
                       /\ (motorPwm = 255 => motorPwm' = 255) ]_vars
  /\ [](nLoops >= MaxSatLoops => motorPwm = 255)

\* after the last pass of the run the command is 255, the smoothed rate is
\* still below the band, and the step asked for a further increase
C6_Witness ==
  /\ nLoops = MaxSatLoops /\ motorPwm = 255
  /\ log.kind = "ctrl" /\ log.dpwm > 0
  /\ F32Lt(hrEma, F32Sub(bandLow, HR_DEADBAND))

(***************************************************************************)
(* TrainSpec: the extractor sketch sampling a clean periodic pulse train   *)
(* at its nominal rate: every pass of loop() comes SAMPLE_PERIOD after the *)
(* last, and the ADC reads TrainPeak for the first TrainWidthMs of each    *)
(* period of trainP ms and TrainBase otherwise.                            *)
(***************************************************************************)
TrainPeriods == {300, 600, 1000}
TrainBase    == 512
TrainPeak    == 1023
TrainWidthMs == 8

\* pulses of the train the run covers
TrainPulses == 8

trainRaw(ms) == IF ms % trainP < TrainWidthMs THEN TrainPeak ELSE TrainBase

\* the pulses that have begun by the time of the last pass
pulsesFed == IF trainP = 0 \/ ecgClock = 0 THEN 0
             ELSE millisAt(ecgClock) \div trainP + 1

TrainInit == CtlInit /\ EcgInit /\ trainP \in TrainPeriods /\ pairAt = -1

TrainNext ==
  \/ ecgSetup /\ UNCHANGED ctlVars
  \/ /\ millisAt(ecgClock + SAMPLE_PERIOD) < TrainPulses * trainP
     /\ ecgLoop(trainRaw(millisAt(ecgClock + SAMPLE_PERIOD)), SAMPLE_PERIOD)
     /\ UNCHANGED ctlVars

TrainSpec == TrainInit /\ [][TrainNext]_vars

\* C2: fed a clean pulse train of period P, once the pulses that fill the
\* RR history have come (one to set the reference time, RR_AVG_N for the
\* intervals, and one more in case the first fell into the start-up
\* lockout), ecgGetBPM() is within 1 of round(60000 / P), and stays so.
C2_Converges ==
  pulsesFed >= RR_AVG_N + 2 =>
    LET want == (2 * 60000 + trainP) \div (2 * trainP)
    IN ecgGetBPM >= want - 1 /\ ecgGetBPM <= want + 1

(***************************************************************************)
(* PairSpec: the extractor on two pulses 50 ms apart.  loop() is called    *)
(* every SAMPLE_PERIOD, the ADC reads TrainPeak for TrainWidthMs from      *)
(* pairAt ms on and again from pairAt + 50 ms on, and TrainBase at every   *)
(* other time; the run goes on for PairTailMs after the second pulse.      *)
(***************************************************************************)
PairStarts == {0, 100, 400, 1000}

\* ms the run lasts beyond the end of the second pulse
PairTailMs == 300

pairRaw(ms) ==
  IF \/ ms >= pairAt /\ ms < pairAt + TrainWidthMs
     \/ ms >= pairAt + 50 /\ ms < pairAt + 50 + TrainWidthMs
  THEN TrainPeak ELSE TrainBase

PairInit == CtlInit /\ EcgInit /\ trainP = 0 /\ pairAt \in PairStarts

PairNext ==
  \/ ecgSetup /\ UNCHANGED ctlVars
  \/ /\ millisAt(ecgClock + SAMPLE_PERIOD)
          < pairAt + 50 + TrainWidthMs + PairTailMs
     /\ ecgLoop(pairRaw(millisAt(ecgClock + SAMPLE_PERIOD)), SAMPLE_PERIOD)
     /\ UNCHANGED ctlVars

PairSpec == PairInit /\ [][PairNext]_vars

\* both pulses of the pair have been sampled and the signal is back at the
\* baseline
pairFed == ecgPc = "loop" /\ millisAt(ecgClock) >= pairAt + 50 + TrainWidthMs

\* C9: of two candidate pulses 50 ms apart exactly one is accepted as a
\* peak (lastPeakMs is assigned exactly once), wherever in the run the pair
\* comes, also as the first pulses after start-up.
C9_ExactlyOne == pairFed => nPeaks = 1

(***************************************************************************)
(* RRSpec: the function pushRR on its own, applied to a choice of values   *)
(* of its uint16_t argument: 0, 100 (the mean RR of 600 bpm), 300 and 1000 *)
(* (the RR of 200 and 60 bpm).                                             *)
(***************************************************************************)
MaxPushes == 7

RRValues == {0, 100, 300, 1000}

rrPush(rr) ==
  /\ ecgPc = "loop"
  /\ pushRR(rr)
  /\ UNCHANGED <<lastSampleUs, filterVars, detVars, lastPrint, ecgClock,
                 ecgPc, bpmPrinted, nSamples, trainP, pairAt>>

RRNext ==
  \/ ecgSetup /\ UNCHANGED ctlVars
  \/ /\ Len(rrPushed) < MaxPushes
     /\ \E rr \in RRValues : rrPush(rr)
     /\ UNCHANGED ctlVars

RRSpec == Init /\ [][RRNext]_vars

\* a call of pushRR was made
pushStep == Len(rrPushed') = Len(rrPushed) + 1

\* the min(k, RR_AVG_N) most recent of the k intervals pushed so far
heldOf(seq) ==
  SubSeq(seq, Len(seq) - Min2(Len(seq), RR_AVG_N) + 1, Len(seq))

RECURSIVE seqSum(_)
seqSum(seq) == IF seq = << >> THEN 0 ELSE Head(seq) + seqSum(Tail(seq))

\* the BPM values the mean of the most recent intervals converts to
bpmOfHeld(seq) == bpmOfRR(seqSum(heldOf(seq)), Len(heldOf(seq)))

\* C11: ecgGetBPM() is 0 or within [BPM_VALID_MIN, BPM_VALID_MAX] =
\* [40, 200] in every state, and a call of pushRR whose mean converts to a
\* BPM outside that range leaves bpmCurrent as it was.
C11_BpmInRange ==
  /\ [](ecgGetBPM = 0 \/ (ecgGetBPM >= 40 /\ ecgGetBPM <= 200))
  /\ [][ (pushStep /\ \A b \in bpmOfHeld(rrPushed') : b < 40 \/ b > 200)
           => bpmCurrent' = bpmCurrent ]_vars

\* an estimate of 200 bpm survived a push that brought the mean RR to 100 ms
\* (600 bpm)
C11_Witness ==
  /\ bpmCurrent = 200 /\ Len(rrPushed) >= 2
  /\ seqSum(heldOf(rrPushed)) = 100 * Len(heldOf(rrPushed))
  /\ bpmOfHeld(rrPushed) = {600}

\* the slot of rrBuf (counted from 1) the p-th push goes to
slotOf(p) == ((p - 1) % RR_AVG_N) + 1

\* C19: after k calls of pushRR the buffer holds the min(k, RR_AVG_N) most
\* recently pushed intervals, each push going to the slot after the last
\* one, round the ring, so that a full buffer loses its oldest interval;
\* rrIdx is k modulo RR_AVG_N, within [0, RR_AVG_N - 1]; rrFilled is set
\* from the RR_AVG_N-th push on and never cleared; and the BPM of a push is
\* computed from the mean of exactly those most recent intervals.
C19_RRHistory ==
  /\ [] LET k == Len(rrPushed)
        IN /\ rrIdx = k % RR_AVG_N /\ rrIdx >= 0 /\ rrIdx <= RR_AVG_N - 1
           /\ rrFilled = (k >= RR_AVG_N)
           /\ \A p \in (k - Min2(k, RR_AVG_N) + 1)..k :
                rrBuf[slotOf(p)] = rrPushed[p]
  /\ [][ rrFilled => rrFilled' ]_vars
  /\ [][ pushStep =>
           \/ bpmCurrent' \in { b \in bpmOfHeld(rrPushed') :
                                  b >= 40 /\ b <= 200 }
           \/ /\ bpmCurrent' = bpmCurrent
              /\ \E b \in bpmOfHeld(rrPushed') : b < 40 \/ b > 200 ]_vars

\* the ring has gone round: seven intervals pushed, the two oldest
\* overwritten, and the estimate is that of the five most recent (300 ms
\* each, 200 bpm) although the two lost ones were 1000 ms
C19_Witness ==
  /\ Len(rrPushed) = 7 /\ rrFilled /\ rrIdx = 2
  /\ rrPushed[1] = 1000 /\ rrPushed[2] = 1000
  /\ \A p \in 3..7 : rrPushed[p] = 300
  /\ bpmCurrent = 200

(***************************************************************************)
(* EcgSpec: the extractor sketch as a whole (sampler, filter, detector and *)
(* RR tracker).  Either the sensor delivers one of the pulse trains of     *)
(* TrainSpec at the nominal rate, or (trainP = 0) loop() is called at      *)
(* irregular times, early, on time or some periods late, with the ADC at   *)
(* the bottom, the middle or the top of its range, up to EcgHorizonMs.     *)
(***************************************************************************)
EcgHorizonMs == 32

\* microseconds between two passes of loop()
EcgDelays == {1000, 4000, 13000}

EcgRaws == {0, 512, 1023}

FreeNext ==
  \/ ecgSetup /\ UNCHANGED ctlVars
  \/ /\ \E raw \in EcgRaws, dt \in EcgDelays :
          /\ millisAt(ecgClock + dt) <= EcgHorizonMs
          /\ ecgLoop(raw, dt)
     /\ UNCHANGED ctlVars

EcgSpecInit ==
  CtlInit /\ EcgInit /\ trainP \in {0} \cup TrainPeriods /\ pairAt = -1

EcgSpecNext ==
  \/ trainP = 0 /\ FreeNext
  \/ trainP # 0 /\ TrainNext

EcgSpec == EcgSpecInit /\ [][EcgSpecNext]_vars

\* a pass of loop(), and with it a call of ecgUpdateSampler, was made
samplerCall == ecgClock' # ecgClock

\* C16: a call of ecgUpdateSampler processes at most one sample; when it
\* processes one it moves lastSampleUs on by exactly SAMPLE_PERIOD, whatever
\* the current time, and otherwise it leaves lastSampleUs as it was.
C16_CatchUp ==
  [][ samplerCall =>
        /\ nSamples' = nSamples \/ nSamples' = nSamples + 1
        /\ nSamples' = nSamples + 1
             => lastSampleUs' = lastSampleUs + SAMPLE_PERIOD
        /\ nSamples' = nSamples => lastSampleUs' = lastSampleUs ]_vars

\* after a late call the sampler has taken one sample and is still two or
\* more periods behind the clock
C16_Witness ==
  /\ trainP = 0 /\ nSamples >= 2
  /\ ecgClock - lastSampleUs >= 2 * SAMPLE_PERIOD

\* 1.5 as a binary32 value
oneAndHalf == F32Div(F32OfInt(3), F32OfInt(2))

\* C20: with THRESH_ALPHA = 0.01 and THRESH_GAIN = 1.5 the threshold
\* 1.5 * threshEnv is never below envEma after a sample, so the comparison
\* never succeeds: aboveThresh stays false, no peak is accepted, lastPeakMs
\* and the RR history never change, and ecgGetBPM() is 0 in every state.
C20_NoPeakEver ==
  /\ F32Ge(F32Mul(threshEnv, oneAndHalf), envEma)
  /\ aboveThresh = FALSE
  /\ nPeaks = 0 /\ lastPeakMs = 0
  /\ rrPushed = << >> /\ rrIdx = 0 /\ rrFilled = FALSE
  /\ \A i \in 1..RR_AVG_N : rrBuf[i] = 0
  /\ ecgGetBPM = 0

\* two pulses of a train have been sampled, the envelope is far above the
\* noise floor, and still nothing has been detected
C20_Witness ==
  /\ trainP # 0 /\ pulsesFed >= 2 /\ nSamples >= 2
  /\ F32Gt(envEma, F32OfInt(100))
  /\ aboveThresh = FALSE /\ nPeaks = 0 /\ bpmCurrent = 0

=============================================================================
